---- MODULE Spec2Model ----
(***************************************************************************)
(* Preference-based Bayesian optimisation demo (src/src/preference_bo.py). *)
(*                                                                         *)
(* The module models the script's own logic: the utility function, the     *)
(* comparison generator, the new-data merge and the trial loop.  The       *)
(* PairwiseGP model, its fitting routine and the acquisition optimiser are *)
(* external: a fitted model is represented by the data it was fitted on,   *)
(* and the optimiser by q points between the search bounds that depend on  *)
(* the baseline points it is given.                                        *)
(*                                                                         *)
(* Numbers are fixed point.  A coordinate is an integer in 0..Grid that    *)
(* stands for the real coordinate/Grid, a weight sqrt(i) is the integer    *)
(* floor(1000*sqrt(i)), so a utility is an integer in units of             *)
(* 1/(1000*Grid).  Python indices are 0-based and are kept 0-based inside  *)
(* comparisons; TLA+ sequences are 1-based, so point k is X[k+1].          *)
(***************************************************************************)
EXTENDS Integers, Sequences, FiniteSets, TLC

VARIABLES
    pc,           \* position of the script in the trial loop
    i,            \* trial index (line 192)
    j,            \* batch index (line 213)
    a,            \* position in algos of the variant being iterated (lines 203, 214)
    init_X,       \* initial points of the trial (line 197)
    comparisons,  \* initial comparisons of the trial (line 198)
    data,         \* dict algo -> (X, comps) (lines 193, 205, 236)
    models,       \* dict algo -> fitted model (lines 194, 206, 241)
    model,        \* the script-level variable `model` (lines 104, 207, 239, 240)
    acq_func,     \* the acquisition function object (line 217)
    next_X,       \* the proposed batch (lines 222, 231)
    best_vals,    \* dict algo -> list of per-trial lists of best values (line 187)
    call,         \* function harness: the call being made and its arguments
    ret           \* function harness: the outcome of the call

loopvars == <<pc, i, j, a, init_X, comparisons, data, models, model, acq_func,
              next_X, best_vals>>
fnvars == <<call, ret>>
vars == <<pc, i, j, a, init_X, comparisons, data, models, model, acq_func,
          next_X, best_vals, call, ret>>

-----------------------------------------------------------------------------
(* Script constants *)

algos == <<"qNEI", "rand">>

\* Number of trials and of batches per trial.  The script runs 5 trials of 10
\* batches; the model runs the same loop over fewer iterations.
NUM_TRIALS == 2
NUM_BATCHES == 2

dim == 5
q == 3
q_comp == 3

\* noise = 0.1, kept as the fraction noise_num / noise_den
noise_num == 1
noise_den == 10
noise == [num |-> noise_num, den |-> noise_den]

\* Resolution of the coordinate grid: coordinate c stands for c / Grid.
Grid == 2

-----------------------------------------------------------------------------
(* Helpers on sequences *)

Range(s) == {s[k] : k \in DOMAIN s}

RECURSIVE SeqSum(_)
SeqSum(s) == IF s = <<>> THEN 0 ELSE Head(s) + SeqSum(Tail(s))

\* tensor.max() of a non-empty vector
SeqMax(s) == CHOOSE m \in Range(s) : \A v \in Range(s) : v <= m

\* Variant of DictSet: the entries share one object, so that storing under
\* one key shows under every key
DictSetAll(d, key, value) == [k \in (DOMAIN d) \cup {key} |-> value]

\* dict[key] = value
DictSet(d, key, value) ==
    [k \in (DOMAIN d) \cup {key} |-> IF k = key THEN value ELSE d[k]]

\* the empty dict
EmptyDict == [k \in {} |-> <<>>]

-----------------------------------------------------------------------------
(* utility *)

\* floor(sqrt(n)) on naturals
ISqrt(n) == CHOOSE r \in 0..n : r * r <= n /\ (r + 1) * (r + 1) > n

\* torch.sqrt(torch.arange(d) + 1) in thousandths, tabulated for d = dim
sqrt_weights == [w \in 1..dim |-> ISqrt(w * 1000000)]

\* utility of one point x (a vector of at most dim coordinates)
utility_row(x) == SeqSum([w \in 1..Len(x) |-> x[w] * sqrt_weights[w]])

\* utility(X): one value per point of the batch X
utility(X) == [k \in 1..Len(X) |-> utility_row(X[k])]

-----------------------------------------------------------------------------
(* Random sources and external calls *)

\* torch.zeros(d), torch.ones(d): the corners of the unit cube
torch_zeros(d) == [w \in 1..d |-> 0]
torch_ones(d) == [w \in 1..d |-> Grid]

\* Variant of bounds: an upper bound of 2 in every dimension
bounds_wide == <<torch_zeros(dim), [w \in 1..dim |-> 2 * Grid]>>

\* bounds = torch.stack([torch.zeros(dim), torch.ones(dim)])
bounds == <<torch_zeros(dim), torch_ones(dim)>>

\* Two points torch.rand can draw: it draws from [0, 1), so no coordinate
\* reaches the upper bound
e1(d) == [w \in 1..d |-> IF w = 1 THEN Grid - 1 ELSE 0]
inner(d) == [w \in 1..d |-> Grid - 1]

\* Outcomes of torch.rand(n, d) the model draws from
torch_rand(n, d) ==
    { [k \in 1..n |-> IF k = n THEN e1(d) ELSE torch_zeros(d)],
      [k \in 1..n |-> IF k = 1 THEN e1(d)
                      ELSE IF k = n THEN inner(d) ELSE torch_zeros(d)] }

\* generate_data(n, dim): the possible (X, y)
generate_data(n, d) == { [X |-> X, y |-> utility(X)] : X \in torch_rand(n, d) }

\* optimize_acqf(acq_function, bounds, q, ...): n points between the bounds.
\* The optimiser is external; the model lets it propose the upper corner
\* until the baseline holds it, and points near the lower corner afterwards.
optimize_acqf(acq, bnds, n) ==
    IF bnds[2] \in Range(acq.X_baseline)
    THEN { [k \in 1..n |-> IF k = 1 THEN bnds[1] ELSE e1(Len(bnds[1]))] }
    ELSE { [k \in 1..n |-> IF k = 1 THEN bnds[2]
                           ELSE IF k = n THEN bnds[1] ELSE e1(Len(bnds[1]))] }

\* Variant of choice_raises: the sample size is not checked against the
\* population
choice_raises_lenient(population, size, replace) ==
    population = 0 /\ size > 0

\* np.random.choice(range(population), size, replace) raises ValueError
choice_raises(population, size, replace) ==
    \/ population = 0 /\ size > 0
    \/ ~replace /\ size > population

Min(x, y) == IF x <= y THEN x ELSE y

\* The results np.random.choice(range(population), size, replace) can return:
\* size independent draws, or the first size elements of a permutation
Choices(population, size, replace) ==
    IF replace
    THEN [1..size -> 0..(population - 1)]
    ELSE { s \in [1..Min(size, population) -> 0..(population - 1)] :
             \A k1, k2 \in DOMAIN s : s[k1] = s[k2] => k1 = k2 }


\* Draws of np.random.standard_normal(size) the model uses, in utility units
StdNormalValues == {-10, 10}
standard_normal(size) == [1..size -> StdNormalValues]

\* One run of generate_comparisons consumes a choice and two normal vectors
\* of len(comp_pairs) values.  When the choice raises, nothing is drawn.
Draws(population, size, replace) ==
    IF choice_raises(population, size, replace)
    THEN { [sel |-> <<>>, z0 |-> <<>>, z1 |-> <<>>] }
    ELSE UNION { { [sel |-> s, z0 |-> n0, z1 |-> n1] :
                     n0 \in standard_normal(Len(s)),
                     n1 \in standard_normal(Len(s)) } :
                 s \in Choices(population, size, replace) }

\* The draws the trial loop is explored with: the pairs in order and no
\* noise, or the pairs in reverse order and noise that flips every pair
LoopDraws(population, size) ==
    IF choice_raises(population, size, FALSE)
    THEN { [sel |-> <<>>, z0 |-> <<>>, z1 |-> <<>>] }
    ELSE { [sel |-> [k \in 1..size |-> k - 1],
            z0 |-> [k \in 1..size |-> 0], z1 |-> [k \in 1..size |-> 0]],
           [sel |-> [k \in 1..size |-> size - k],
            z0 |-> [k \in 1..size |-> 0 - 1000000],
            z1 |-> [k \in 1..size |-> 1000000]] }

-----------------------------------------------------------------------------
(* generate_comparisons *)

\* list(combinations(range(n), 2)): the pairs (lo, hi), lo < hi, in
\* lexicographic order
RECURSIVE combinations_from(_, _, _)
combinations_from(n, lo, hi) ==
    IF lo >= n - 1 THEN <<>>
    ELSE IF hi >= n THEN combinations_from(n, lo + 1, lo + 2)
    ELSE <<<<lo, hi>>>> \o combinations_from(n, lo, hi + 1)

combinations2(n) == combinations_from(n, 0, 1)

\* Variant of reverse_comp: ties are reversed too
reverse_comp_ties(c0, c1) == c0 <= c1

\* reverse_comp = (c0 < c1)
reverse_comp(c0, c1) == c0 < c1

\* np.flip(row, 1)
flip(row) == <<row[2], row[1]>>

\* generate_comparisons(y, n_comp, noise, replace) under the draws rnd.
\* err is the exception raised ("none" when the call returns); c0 and c1
\* are the noisy scores of the first and second element of each drawn pair.
generate_comparisons(y, n_comp, nse, replace, rnd) ==
    LET all_pairs == combinations2(Len(y))
    IN IF choice_raises(Len(all_pairs), n_comp, replace)
       THEN [err |-> "ValueError", comp_pairs |-> <<>>, c0 |-> <<>>, c1 |-> <<>>]
       ELSE IF Len(all_pairs) = 0
       \* all_pairs is a one-dimensional empty array: comp_pairs[:, 0] fails
       THEN [err |-> "IndexError", comp_pairs |-> <<>>, c0 |-> <<>>, c1 |-> <<>>]
       ELSE
         LET drawn == [k \in 1..Len(rnd.sel) |-> all_pairs[rnd.sel[k] + 1]]
             c0 == [k \in 1..Len(drawn) |->
                      y[drawn[k][1] + 1] + (rnd.z0[k] * nse.num) \div nse.den]
             c1 == [k \in 1..Len(drawn) |->
                      y[drawn[k][2] + 1] + (rnd.z1[k] * nse.num) \div nse.den]
             comp_pairs == [k \in 1..Len(drawn) |->
                              IF reverse_comp(c0[k], c1[k])
                              THEN flip(drawn[k]) ELSE drawn[k]]
         IN [err |-> "none", comp_pairs |-> comp_pairs, c0 |-> c0, c1 |-> c1]

-----------------------------------------------------------------------------
(* init_and_fit_model, make_new_data *)

\* init_and_fit_model(X, comp, state_dict): the fitted PairwiseGP, represented
\* by its training data and by whether it was warm-started
init_and_fit_model(X, comp, state_dict) ==
    [train_X |-> X, train_comp |-> comp, warm_started |-> state_dict /= "None"]

\* model.state_dict()
state_dict(m) == "state_dict"

\* Variant of offset_comps: the new comparisons keep their batch-local indices
offset_comps_missing(next_comps, X) == next_comps

\* next_comps + X.shape[-2]
offset_comps(next_comps, X) ==
    [k \in 1..Len(next_comps) |->
       <<next_comps[k][1] + Len(X), next_comps[k][2] + Len(X)>>]

\* Variant of make_new_data: the points are concatenated before the new
\* comparisons are offset, so the offset is the new point count
make_new_data_late_offset(X, nX, comps, n_comp, rnd) ==
    LET next_y == utility(nX)
        next_comps == generate_comparisons(next_y, n_comp, noise, FALSE, rnd)
    IN IF next_comps.err /= "none"
       THEN [err |-> next_comps.err, X |-> <<>>, comps |-> <<>>]
       ELSE [err |-> "none",
             X |-> X \o nX,
             comps |-> comps \o offset_comps(next_comps.comp_pairs, X \o nX)]

\* Variant of make_new_data: the new points are put in front of the old ones
make_new_data_prepend(X, nX, comps, n_comp, rnd) ==
    LET next_y == utility(nX)
        next_comps == generate_comparisons(next_y, n_comp, noise, FALSE, rnd)
    IN IF next_comps.err /= "none"
       THEN [err |-> next_comps.err, X |-> <<>>, comps |-> <<>>]
       ELSE [err |-> "none",
             X |-> nX \o X,
             comps |-> comps \o offset_comps(next_comps.comp_pairs, X)]

\* make_new_data(X, next_X, comps, q_comp) under the draws rnd
make_new_data(X, nX, comps, n_comp, rnd) ==
    LET next_y == utility(nX)
        next_comps == generate_comparisons(next_y, n_comp, noise, FALSE, rnd)
    IN IF next_comps.err /= "none"
       THEN [err |-> next_comps.err, X |-> <<>>, comps |-> <<>>]
       ELSE [err |-> "none",
             X |-> X \o nX,
             comps |-> comps \o offset_comps(next_comps.comp_pairs, X)]

-----------------------------------------------------------------------------
(* The trial loop (lines 187-245) *)

\* The model fitted at lines 104-106, which `model` names when the loop
\* starts.  Its training set is not used by the loop and is left empty.
ScriptModel == init_and_fit_model(<<>>, <<>>, "None")

NoAcqFunc == [defined |-> FALSE, model |-> ScriptModel, X_baseline |-> <<>>]

\* qNoisyExpectedImprovement(model=..., X_baseline=...)
qNoisyExpectedImprovement(m, X_baseline) ==
    [defined |-> TRUE, model |-> m, X_baseline |-> X_baseline]

\* Variant of best_observed: the best value of the newest q points only
best_observed_newest(X) ==
    SeqMax(utility(SubSeq(X, Len(X) - q + 1, Len(X))))

\* utility(X).max().item()
best_observed(X) == SeqMax(utility(X))

\* best_vals[algo][-1].append(v)
append_best(bv, algo, v) ==
    [bv EXCEPT ![algo] = [@ EXCEPT ![Len(@)] = Append(@, v)]]

\* range(NUM_TRIALS) and range(1, NUM_BATCHES + 1) are exhausted after the
\* iteration with this index
trials_exhausted(t) == t + 1 >= NUM_TRIALS

\* Variant of batches_exhausted: range(1, NUM_BATCHES)
batches_exhausted_early(b) == b >= NUM_BATCHES - 1

batches_exhausted(b) == b >= NUM_BATCHES

LoopInit ==
    /\ pc = "trial"
    /\ i = 0
    /\ j = 0
    /\ a = 1
    /\ init_X = <<>>
    /\ comparisons = <<>>
    /\ data = EmptyDict
    /\ models = EmptyDict
    /\ model = ScriptModel
    /\ acq_func = NoAcqFunc
    /\ next_X = <<>>
    /\ best_vals = [algo \in Range(algos) |-> <<>>]

\* The function harness is idle while the trial loop runs
NoCall == [fn |-> "none", y |-> <<>>, n_comp |-> 0, replace |-> FALSE,
           X |-> <<>>, next_X |-> <<>>, comps |-> <<>>]
Pending == [state |-> "pending", err |-> "none", comp_pairs |-> <<>>,
            c0 |-> <<>>, c1 |-> <<>>, X |-> <<>>, comps |-> <<>>]

Init ==
    /\ LoopInit
    /\ call = NoCall
    /\ ret = Pending

\* The end of a trial: the next trial, or the end of the loop
EndTrial ==
    IF trials_exhausted(i)
    THEN pc' = "done" /\ UNCHANGED <<i, j, a>>
    ELSE pc' = "trial" /\ i' = i + 1 /\ UNCHANGED <<j, a>>

\* Lines 193-201: empty dicts and the initial data of trial i
TrialInit ==
    /\ pc = "trial"
    /\ \E gd \in generate_data(q, dim) :
       \E rnd \in LoopDraws(Len(combinations2(Len(gd.y))), q_comp) :
         LET gc == generate_comparisons(gd.y, q_comp, noise, FALSE, rnd)
         IN /\ data' = EmptyDict
            /\ models' = EmptyDict
            /\ IF gc.err /= "none"
               THEN /\ pc' = "aborted"
                    /\ init_X' = gd.X
                    /\ UNCHANGED <<a, comparisons>>
               ELSE /\ pc' = "init_algo"
                    /\ a' = 1
                    /\ init_X' = gd.X
                    /\ comparisons' = gc.comp_pairs
    /\ UNCHANGED <<i, j, model, acq_func, next_X, best_vals>>
    /\ UNCHANGED fnvars

\* Lines 203-210, one iteration: the initial dataset, model and record of
\* variant algos[a]
AlgoInit ==
    /\ pc = "init_algo"
    /\ LET algo == algos[a]
           fitted == init_and_fit_model(init_X, comparisons, "None")
       IN /\ data' = DictSet(data, algo, [X |-> init_X, comps |-> comparisons])
          /\ models' = DictSet(models, algo, fitted)
          /\ model' = fitted
          /\ best_vals' = append_best([best_vals EXCEPT ![algo] = Append(@, <<>>)],
                                      algo, best_observed(init_X))
    /\ IF a < Len(algos)
       THEN a' = a + 1 /\ UNCHANGED <<pc, i, j>>
       ELSE IF batches_exhausted(0)
            THEN EndTrial
            ELSE pc' = "propose" /\ j' = 1 /\ a' = 1 /\ UNCHANGED i
    /\ UNCHANGED <<init_X, comparisons, acq_func, next_X>>
    /\ UNCHANGED fnvars

\* Lines 215-228: the acquisition function is built on `model` and optimised
ProposeAcq ==
    /\ pc = "propose"
    /\ algos[a] = "qNEI"
    /\ LET acq == qNoisyExpectedImprovement(model, data["qNEI"].X)
       IN /\ acq_func' = acq
          /\ \E nX \in optimize_acqf(acq, bounds, q) : next_X' = nX
    /\ pc' = "observe"
    /\ UNCHANGED <<i, j, a, init_X, comparisons, data, models, model, best_vals>>
    /\ UNCHANGED fnvars

\* Lines 229-231: q random points
ProposeRand ==
    /\ pc = "propose"
    /\ algos[a] /= "qNEI"
    /\ \E gd \in generate_data(q, dim) : next_X' = gd.X
    /\ pc' = "observe"
    /\ UNCHANGED <<i, j, a, init_X, comparisons, data, models, model, acq_func,
                   best_vals>>
    /\ UNCHANGED fnvars

\* Lines 234-236: the new points and comparisons are merged into data[algo]
Observe ==
    /\ pc = "observe"
    /\ LET algo == algos[a]
       IN \E rnd \in LoopDraws(Len(combinations2(Len(next_X))), q_comp) :
            LET new == make_new_data(data[algo].X, next_X, data[algo].comps,
                                     q_comp, rnd)
            IN IF new.err /= "none"
               THEN pc' = "aborted" /\ UNCHANGED data
               ELSE /\ pc' = "refit"
                    /\ data' = DictSet(data, algo, [X |-> new.X, comps |-> new.comps])
    /\ UNCHANGED <<i, j, a, init_X, comparisons, models, model, acq_func, next_X,
                   best_vals>>
    /\ UNCHANGED fnvars

\* Lines 239-241: the variant's model is refitted, warm-started from its
\* previous model
Refit ==
    /\ pc = "refit"
    /\ LET algo == algos[a]
           previous == models[algo]
           fitted == init_and_fit_model(data[algo].X, data[algo].comps,
                                        state_dict(previous))
       IN /\ model' = fitted
          /\ models' = DictSet(models, algo, fitted)
    /\ pc' = "record"
    /\ UNCHANGED <<i, j, a, init_X, comparisons, data, acq_func, next_X, best_vals>>
    /\ UNCHANGED fnvars

\* Lines 244-245 and the loop heads at 214, 213 and 192: the best value is
\* recorded, then the next variant, batch or trial starts
Record ==
    /\ pc = "record"
    /\ best_vals' = append_best(best_vals, algos[a], best_observed(data[algos[a]].X))
    /\ IF a < Len(algos)
       THEN pc' = "propose" /\ a' = a + 1 /\ UNCHANGED <<i, j>>
       ELSE IF batches_exhausted(j)
            THEN EndTrial
            ELSE pc' = "propose" /\ j' = j + 1 /\ a' = 1 /\ UNCHANGED i
    /\ UNCHANGED <<init_X, comparisons, data, models, model, acq_func, next_X>>
    /\ UNCHANGED fnvars

Next ==
    \/ TrialInit
    \/ AlgoInit
    \/ ProposeAcq
    \/ ProposeRand
    \/ Observe
    \/ Refit
    \/ Record

Spec == Init /\ [][Next]_vars

-----------------------------------------------------------------------------
(* The helper functions called on their own *)

\* Largest len(y) and largest n_comp the functions are called with
MaxLenY == 3
MaxComp == 2

\* Latent values of the called generate_comparisons, in utility units
YValues == {0, 2}

GCInputs ==
    { [fn |-> "generate_comparisons", y |-> y, n_comp |-> n, replace |-> r,
       X |-> <<>>, next_X |-> <<>>, comps |-> <<>>] :
        y \in UNION { [1..len -> YValues] : len \in 0..MaxLenY },
        n \in 0..MaxComp, r \in BOOLEAN }

\* Datasets make_new_data is called on: empty, or points with comparisons
\* among them
OldDatasets ==
    { [X |-> <<>>, comps |-> <<>>],
      [X |-> <<e1(dim), torch_zeros(dim)>>, comps |-> <<<<0, 1>>>>],
      [X |-> <<torch_zeros(dim), inner(dim), e1(dim)>>,
       comps |-> <<<<1, 0>>, <<1, 2>>>>] }

MNDInputs ==
    { [fn |-> "make_new_data", y |-> <<>>, n_comp |-> n, replace |-> FALSE,
       X |-> old.X, next_X |-> nX, comps |-> old.comps] :
        old \in OldDatasets,
        nX \in UNION { torch_rand(len, dim) : len \in 1..MaxLenY },
        n \in 0..MaxComp }

FnInit ==
    /\ LoopInit
    /\ call \in GCInputs \cup MNDInputs
    /\ ret = Pending

\* An exception is not caught anywhere in the script: it ends the run
outcome(err) == IF err = "none" THEN "returned" ELSE "aborted"

\* generate_comparisons(call.y, call.n_comp, noise, call.replace)
CallGenerateComparisons ==
    /\ call.fn = "generate_comparisons"
    /\ ret.state = "pending"
    /\ \E rnd \in Draws(Len(combinations2(Len(call.y))), call.n_comp, call.replace) :
         LET gc == generate_comparisons(call.y, call.n_comp, noise, call.replace, rnd)
         IN ret' = [state |-> outcome(gc.err), err |-> gc.err,
                    comp_pairs |-> gc.comp_pairs, c0 |-> gc.c0, c1 |-> gc.c1,
                    X |-> <<>>, comps |-> <<>>]
    /\ UNCHANGED call
    /\ UNCHANGED loopvars

\* make_new_data(call.X, call.next_X, call.comps, call.n_comp)
CallMakeNewData ==
    /\ call.fn = "make_new_data"
    /\ ret.state = "pending"
    /\ \E rnd \in Draws(Len(combinations2(Len(call.next_X))), call.n_comp, FALSE) :
         LET new == make_new_data(call.X, call.next_X, call.comps, call.n_comp, rnd)
         IN ret' = [state |-> outcome(new.err), err |-> new.err,
                    comp_pairs |-> <<>>, c0 |-> <<>>, c1 |-> <<>>,
                    X |-> new.X, comps |-> new.comps]
    /\ UNCHANGED call
    /\ UNCHANGED loopvars

FnNext ==
    \/ CallGenerateComparisons
    \/ CallMakeNewData

FnSpec == FnInit /\ [][FnNext]_vars

-----------------------------------------------------------------------------
(* Properties *)

Variants == Range(algos)

\* The variants other than the one being iterated
Others == Variants \ {algos[a]}

\* Number of unordered index pairs among n items
PairCount(n) == (n * (n - 1)) \div 2

Last(s) == s[Len(s)]

\* Every value recorded so far, over all variants and trials
Recorded ==
    UNION { UNION { Range(best_vals[algo][t]) : t \in DOMAIN best_vals[algo] } :
            algo \in Variants }

\* C1: in every batch, the model handed to the acquisition function when the
\* qNEI variant proposes is the qNEI variant's own most recently fitted
\* model, fitted on the qNEI dataset that is passed as baseline points.
C1_AcqUsesOwnModel ==
    (pc = "observe" /\ algos[a] = "qNEI") =>
        /\ acq_func.model = models["qNEI"]
        /\ acq_func.model.train_X = acq_func.X_baseline

\* A step of the variant being iterated keeps the others' entries
KeepsOthers ==
    pc \in {"propose", "observe", "refit", "record"} =>
        \A o \in Others :
          /\ o \in DOMAIN data /\ o \in DOMAIN data'
          /\ o \in DOMAIN models /\ o \in DOMAIN models'
          /\ data'[o] = data[o]
          /\ models'[o] = models[o]

\* C2: a Proposing, Observing, Refitting or recording step of one variant
\* leaves the stored dataset and the stored model of the other variant
\* unchanged.
C2_OtherVariantUnchanged == [][KeepsOthers]_vars

\* C2 witness: the random variant has merged and refitted its second batch
\* while the qNEI dataset differs from it
C2_Witness ==
    /\ pc = "record" /\ algos[a] = "rand" /\ j = 2
    /\ Len(data["rand"].X) = 3 * q
    /\ data["rand"] /= data["qNEI"]
    /\ models["rand"].train_X = data["rand"].X

\* C3: in every reachable state, both indices of every comparison of every
\* variant's dataset lie in [0, number of points of that dataset).
C3_ComparisonsValid ==
    \A algo \in DOMAIN data :
      \A k \in DOMAIN data[algo].comps :
        /\ data[algo].comps[k][1] \in 0..(Len(data[algo].X) - 1)
        /\ data[algo].comps[k][2] \in 0..(Len(data[algo].X) - 1)

\* C3 witness: both datasets have gone through every merge of a trial
C3_Witness ==
    /\ pc = "done"
    /\ \A algo \in Variants :
         /\ Len(data[algo].X) = (NUM_BATCHES + 1) * q
         /\ Len(data[algo].comps) = (NUM_BATCHES + 1) * q_comp

\* C4: make_new_data is append-only: the result has old point count + q
\* points and old comparison count + q_comp comparisons, the old points and
\* comparisons are an unchanged prefix, and every index of the appended
\* comparisons is >= old point count and < old point count + q.
C4_AppendOnly ==
    (call.fn = "make_new_data" /\ ret.state = "returned") =>
        LET oldN == Len(call.X)
            oldM == Len(call.comps)
            qq == Len(call.next_X)
        IN /\ Len(ret.X) = oldN + qq
           /\ Len(ret.comps) = oldM + call.n_comp
           /\ SubSeq(ret.X, 1, oldN) = call.X
           /\ SubSeq(ret.X, oldN + 1, oldN + qq) = call.next_X
           /\ SubSeq(ret.comps, 1, oldM) = call.comps
           /\ \A k \in (oldM + 1)..Len(ret.comps) :
                /\ ret.comps[k][1] \in oldN..(oldN + qq - 1)
                /\ ret.comps[k][2] \in oldN..(oldN + qq - 1)

\* C4 witness: a merge of new points and new comparisons into a dataset that
\* already has points and comparisons
C4_Witness ==
    /\ call.fn = "make_new_data" /\ ret.state = "returned"
    /\ Len(call.X) = 3 /\ Len(call.comps) = 2
    /\ Len(call.next_X) = 3 /\ call.n_comp = 2
    /\ Len(ret.comps) = 4

\* C5: within each trial and for every variant, the recorded best values are
\* non-decreasing over the batch index.
C5_BestNonDecreasing ==
    \A algo \in Variants :
      \A t \in DOMAIN best_vals[algo] :
        \A k \in 1..(Len(best_vals[algo][t]) - 1) :
          best_vals[algo][t][k] <= best_vals[algo][t][k + 1]

\* C5 witness: a finished trajectory that rose, and whose last batch was
\* worse than the value recorded for it
C5_Witness ==
    /\ pc = "done"
    /\ Len(Last(best_vals["rand"])) = NUM_BATCHES + 1
    /\ Last(best_vals["rand"])[1] < Last(Last(best_vals["rand"]))
    /\ SeqMax(utility(next_X)) < Last(Last(best_vals["rand"]))

\* The order of the steps of the loop
StepOrder ==
    <<pc, pc'>> \in
        { <<"trial", "init_algo">>, <<"init_algo", "init_algo">>,
          <<"init_algo", "propose">>, <<"propose", "observe">>,
          <<"observe", "refit">>, <<"refit", "record">>,
          <<"record", "propose">>, <<"record", "trial">>,
          <<"record", "done">> }

\* Steps of one trial: its initialisation, one initial fit per variant, and
\* four steps per variant and batch
StepsPerTrial == 1 + Len(algos) + NUM_BATCHES * Len(algos) * 4

\* Steps left until the loop ends
Remaining ==
    IF pc = "done" THEN 0
    ELSE (NUM_TRIALS - 1 - i) * StepsPerTrial +
         CASE pc = "trial" -> StepsPerTrial
           [] pc = "init_algo" ->
                (Len(algos) - a + 1) + NUM_BATCHES * Len(algos) * 4
           [] OTHER ->
                (CASE pc = "propose" -> 4 [] pc = "observe" -> 3
                   [] pc = "refit" -> 2 [] OTHER -> 1)
                + (Len(algos) - a) * 4 + (NUM_BATCHES - j) * Len(algos) * 4

\* The statement at pc can run: it is a statement of the loop, what it reads
\* exists, and the random source it draws from is not empty
Ready ==
    /\ pc \in {"trial", "init_algo", "propose", "observe", "refit", "record"}
    /\ a \in DOMAIN algos
    /\ generate_data(q, dim) /= {}
    /\ LoopDraws(PairCount(q), q_comp) /= {}
    /\ pc = "init_algo" => Len(init_X) = q /\ Len(comparisons) = q_comp
    /\ pc \in {"propose", "observe", "refit", "record"} =>
         /\ Variants \subseteq DOMAIN data
         /\ Variants \subseteq DOMAIN models
         /\ j \in 1..NUM_BATCHES
    /\ pc = "propose" => optimize_acqf(acq_func, bounds, q) /= {}
    /\ pc = "observe" => Len(next_X) = q

\* C6: per trial the loop goes Initialized -> (Proposing -> Observing ->
\* Refitting) x NUM_BATCHES -> Terminal, and it terminates: every step takes
\* one off the steps left, a state with steps left can take a step, and at
\* the end every variant holds NUM_TRIALS trajectories of NUM_BATCHES + 1
\* values each.
C6_Lifecycle ==
    /\ [][StepOrder /\ Remaining' = Remaining - 1]_loopvars
    /\ [](Remaining >= 0)
    /\ [](pc /= "done" => Ready)
    /\ [](pc = "done" =>
            \A algo \in Variants :
              /\ Len(best_vals[algo]) = NUM_TRIALS
              /\ \A t \in DOMAIN best_vals[algo] :
                   Len(best_vals[algo][t]) = NUM_BATCHES + 1)

\* C6 witness: the run has ended with every trajectory complete
C6_Witness ==
    /\ pc = "done"
    /\ i = NUM_TRIALS - 1 /\ j = NUM_BATCHES
    /\ \A algo \in Variants :
         /\ Len(best_vals[algo]) = NUM_TRIALS
         /\ Len(Last(best_vals[algo])) = NUM_BATCHES + 1

\* C7: generate_comparisons without replacement and with n_comp greater than
\* the number of unordered pairs fails with ValueError and returns no
\* comparisons; the failure ends the run, also when it is raised through
\* make_new_data.
C7_TooManyComparisonsRaises ==
    /\ (/\ call.fn = "generate_comparisons" /\ ret.state /= "pending"
        /\ ~call.replace /\ call.n_comp > PairCount(Len(call.y)))
         => (ret.state = "aborted" /\ ret.err = "ValueError"
             /\ ret.comp_pairs = <<>>)
    /\ (/\ call.fn = "make_new_data" /\ ret.state /= "pending"
        /\ call.n_comp > PairCount(Len(call.next_X)))
         => (ret.state = "aborted" /\ ret.err = "ValueError"
             /\ ret.X = <<>> /\ ret.comps = <<>>)

\* C7 witness: two comparisons were asked of two values, which have one pair
C7_Witness ==
    /\ call.fn = "generate_comparisons" /\ ~call.replace
    /\ Len(call.y) = 2 /\ call.n_comp = 2
    /\ ret.state = "aborted"

\* C8: for len(y) >= 2 and 1 <= n_comp <= C(len(y), 2), generate_comparisons
\* returns n_comp rows (w, l) with w /= l, both indices in [0, len(y)), the
\* noisy score of w >= the noisy score of l, and a pair is flipped exactly
\* when its first noisy score is strictly smaller than its second.
C8_ComparisonsOrdered ==
    (/\ call.fn = "generate_comparisons" /\ ret.state /= "pending"
     /\ ~call.replace /\ Len(call.y) >= 2
     /\ call.n_comp \in 1..PairCount(Len(call.y)))
      => /\ ret.state = "returned"
         /\ Len(ret.comp_pairs) = call.n_comp
         /\ \A k \in DOMAIN ret.comp_pairs :
              LET w == ret.comp_pairs[k][1]
                  l == ret.comp_pairs[k][2]
                  \* c0 is the score of the smaller index of the pair
                  score_w == IF w < l THEN ret.c0[k] ELSE ret.c1[k]
                  score_l == IF w < l THEN ret.c1[k] ELSE ret.c0[k]
              IN /\ w /= l
                 /\ w \in 0..(Len(call.y) - 1)
                 /\ l \in 0..(Len(call.y) - 1)
                 /\ score_w >= score_l
                 /\ (w > l) <=> (ret.c0[k] < ret.c1[k])

\* C8 witness: a call that returned a flipped row, a row kept on a tie and
\* nothing else
C8_Witness ==
    /\ call.fn = "generate_comparisons" /\ ret.state = "returned"
    /\ ~call.replace /\ Len(call.y) = 3 /\ call.n_comp = 2
    /\ \E k1, k2 \in DOMAIN ret.comp_pairs :
         /\ ret.comp_pairs[k1][1] > ret.comp_pairs[k1][2]
         /\ ret.comp_pairs[k2][1] < ret.comp_pairs[k2][2]
         /\ ret.c0[k2] = ret.c1[k2]

\* utility(torch.tensor([[1] * dim])).item()
optimal_val == utility(<<torch_ones(dim)>>)[1]

\* C9: no recorded best value exceeds the utility of the all-ones point.
C9_BestBelowOptimum == \A v \in Recorded : v <= optimal_val

\* C9 witness: the optimum itself has been recorded, next to smaller values
C9_Witness ==
    /\ optimal_val \in Recorded
    /\ \E v \in Recorded : v < optimal_val

\* C10: every comparison of a dataset relates two points added in the same
\* batch, and no unordered pair of points is compared twice in a dataset.
C10_SameBatchNoDuplicates ==
    \A algo \in DOMAIN data :
      LET comps == data[algo].comps
      IN /\ \A k \in DOMAIN comps :
              /\ comps[k][1] \div q = comps[k][2] \div q
              /\ comps[k][1] \div q \in 0..NUM_BATCHES
         /\ \A k1, k2 \in DOMAIN comps :
              {comps[k1][1], comps[k1][2]} = {comps[k2][1], comps[k2][2]}
                => k1 = k2

\* C10 witness: a dataset holds comparisons of its last batch
C10_Witness ==
    \E algo \in DOMAIN data :
      /\ Len(data[algo].comps) = (NUM_BATCHES + 1) * q_comp
      /\ \E k \in DOMAIN data[algo].comps :
           data[algo].comps[k][1] \div q = NUM_BATCHES

====
